---- MODULE Spec2Model ----
(***************************************************************************)
(* Model of core/rawdb/freezer_utils.go: the store-level Concat, which     *)
(* merges every table of a source freezer onto the like-named table of a   *)
(* destination freezer and then promotes the destination directory, and    *)
(* the table-level concat, which appends the source index to the           *)
(* destination index while renaming the source segment files into the      *)
(* destination numbering.                                                  *)
(*                                                                         *)
(* Every filesystem call of the two functions is one step, so the states   *)
(* between two calls (the ones a crash would leave on disk) are states of  *)
(* the model.  Every call that can return an error has a failing branch.   *)
(*                                                                         *)
(* copyFrom and the segment file helpers (openFreezerFileForAppend,        *)
(* openFreezerFileTruncated, truncateFreezerFile) have specifications of   *)
(* their own, SpecCopy and SpecFile, over their own variables.             *)
(***************************************************************************)
EXTENDS Integers, Sequences, FiniteSets, TLC

(* ---------------------------------------------------------------- bounds *)

\* longest source index (in records) of the table-level specification
MaxRecords == 3
\* source segment numbers of the table-level specification are 1..MaxFileNum
MaxFileNum == 3
\* largest destination head segment number tried (smallest is 1)
MaxHead == 2
\* longest source index of the store-level specification
StoreMaxRecords == 2
\* records the index writer buffers before it writes through.  bufio's
\* writer holds 4096 bytes, i.e. 682 whole index records; the model scales
\* that down so that both a source index shorter than the buffer and one
\* longer than it occur.
BufRecords == 2
\* longest file content (in bytes) copyFrom is tried on
MaxBytes == 2
\* longest prefix (in bytes) the before callback of copyFrom writes
MaxPrefix == 1
\* longest segment file (in bytes) of the segment file specification
MaxFileLen == 3

(* ----------------------------------------------------------- the stores *)

Names == {"headers", "bodies"}

NoTable == "-"

\* to.tables[name].path, from.tables[name].path, and the ".old" path
DirPaths == {"toPath", "fromPath", "fromPath.old"}

VARIABLES
    toNames,      \* keys of to.tables
    fromNames,    \* keys of from.tables
    headId,       \* headId[t]: to.tables[t].headId
    tailId,       \* tailId[t]: from.tables[t].tailId
    toIndex,      \* toIndex[t]: records of the destination index file on disk
    fromIndex,    \* fromIndex[t]: records of the source index file on disk
    files,        \* segment files on disk: path -> identity of the content
    dirs,         \* directory path -> the store directory sitting there
    pc,           \* position of Concat
    pending,      \* tables of to.tables the range loop has not visited
    name,         \* loop variable of Concat
    result,       \* what Concat returned
    cpc,          \* position of concat
    toFileId,     \* local of concat
    fromFileId,   \* local of concat
    cur,          \* local of concat
    entry,        \* local of concat: the record readIndex returned
    buf,          \* records held by the bufio.Writer toIndex
    cerr,         \* what concat returned
    idxOpen,      \* the handle `index` of concat is open
    renames,      \* history: the renames performed so far, in order
    written,      \* history: records handed to toIndex.Write by this concat
    merged,       \* history: tables whose concat returned nil
    dirLog,       \* history: the directory renames Concat issued, in order
    files0,       \* history: files before Concat
    toIndex0      \* history: destination indexes before Concat

VARIABLES
    cfiles,       \* copyFrom: the files of the directory, path -> bytes
    copyPc,       \* copyFrom: position
    srcPath,      \* copyFrom: parameter
    destPath,     \* copyFrom: parameter
    offset,       \* copyFrom: parameter
    before,       \* copyFrom: parameter, the bytes the callback writes
    fOpen,        \* copyFrom: f != nil
    srcOpen,      \* copyFrom: src is open
    copyErr,      \* copyFrom: the error returned
    copyFault,    \* history: the call of copyFrom that failed
    cfiles0       \* history: the files before copyFrom

VARIABLES
    fexists,      \* the segment file exists
    fdata,        \* the bytes of the segment file
    fhandle,      \* the *os.File the helpers returned is open
    cursor,       \* the offset of that handle
    healthy,      \* history: no helper failed on this handle
    lastOp        \* history: the last operation on the segment file

copyVars == <<cfiles, copyPc, srcPath, destPath, offset, before, fOpen, srcOpen,
              copyErr, copyFault, cfiles0>>
fileVars == <<fexists, fdata, fhandle, cursor, healthy, lastOp>>
utilVars == <<copyVars, fileVars>>

diskVars  == <<toIndex, fromIndex, files, dirs>>
tableVars == <<toNames, fromNames, headId, tailId>>
storeVars == <<pc, pending, name, result>>
localVars == <<cpc, toFileId, fromFileId, cur, entry, buf, cerr, idxOpen>>
histVars  == <<renames, written, merged, dirLog, files0, toIndex0>>
concatVars == <<diskVars, tableVars, storeVars, localVars, histVars>>
vars == <<concatVars, copyVars, fileVars>>

(* --------------------------------------------------------------- helpers *)

\* an index record
indexEntry(num, off) == [filenum |-> num, offset |-> off]

NoEntry == indexEntry(0, 0)

\* t.fileName(num) of the table t of a store
fileName(store, t, num) == [store |-> store, table |-> t, num |-> num]

\* mutant: the rename reports success and moves nothing
osRename_noop(fs, src, dst) == fs

\* os.Rename on files: the target is replaced if it exists
osRename(fs, src, dst) ==
    [p \in (DOMAIN fs \ {src}) \cup {dst} |-> IF p = dst THEN fs[src] ELSE fs[p]]

\* os.Rename on directories: fails if the source is missing or the target
\* is a directory that is not empty (every store directory holds files)
dirRenameOk(d, src, dst) == d[src] # "none" /\ d[dst] = "none"

dirRename(d, src, dst) == [d EXCEPT ![dst] = d[src], ![src] = "none"]

SeqsUpTo(S, n) == UNION {[1..k -> S] : k \in 0..n}

Min(S) == CHOOSE x \in S : \A y \in S : x <= y
Max(S) == CHOOSE x \in S : \A y \in S : x >= y

\* a source index with the segment numbers nums
SourceIndex(nums) == [i \in 1..Len(nums) |-> indexEntry(nums[i], 100 + i)]

\* a destination index: the boundary record, then one item per segment 0..h
DestIndex(h) ==
    [i \in 1..(h + 2) |-> IF i = 1 THEN indexEntry(0, 0) ELSE indexEntry(i - 2, 10 + i)]

\* the source segments on disk: a contiguous range covering the tail and
\* every segment the index names
SourceSegments(tail, nums) ==
    LET S == {tail} \cup {nums[i] : i \in 1..Len(nums)} IN Min(S)..Max(S)

InitialFiles(tn, fn, h, tl, nums) ==
    LET P == {fileName("to", t, n) : t \in tn, n \in 0..MaxHead + 1}
             \cup {fileName("from", t, n) : t \in fn, n \in 0..MaxFileNum + 1}
        D == {p \in P : \/ p.store = "to" /\ p.table \in tn /\ p.num \in 0..h[p.table]
                        \/ p.store = "from" /\ p.table \in fn
                           /\ p.num \in SourceSegments(tl[p.table], nums[p.table])}
    IN [p \in D |-> p]

(* ------------------------------------------------------------------ Init *)

NoPath == "-"

NoCallback == [given |-> FALSE, prefix |-> <<>>]

NoOp == [op |-> "none", size |-> 0, bytes |-> <<>>, ok |-> TRUE]

\* copyFrom is not running
CopyIdle ==
    /\ cfiles = <<>>
    /\ cfiles0 = <<>>
    /\ copyPc = "idle"
    /\ srcPath = NoPath
    /\ destPath = NoPath
    /\ offset = 0
    /\ before = NoCallback
    /\ fOpen = FALSE
    /\ srcOpen = FALSE
    /\ copyErr = "nil"
    /\ copyFault = "none"

\* no segment file is being worked on
FileIdle ==
    /\ fexists = FALSE
    /\ fdata = <<>>
    /\ fhandle = FALSE
    /\ cursor = 0
    /\ healthy = TRUE
    /\ lastOp = NoOp

InitWith(toSets, fromSets, heads, tails, indexes, oldDirs) ==
    /\ toNames \in toSets
    /\ fromNames \in fromSets
    /\ headId \in [Names -> heads]
    /\ \A t \in Names \ toNames : headId[t] = Min(heads)
    /\ tailId \in [Names -> tails]
    /\ \A t \in Names \ fromNames : tailId[t] = Min(tails)
    /\ \E nums \in [Names -> indexes] :
          /\ \A t \in Names \ fromNames : nums[t] = <<>>
          /\ fromIndex = [t \in Names |-> SourceIndex(nums[t])]
          /\ files = InitialFiles(toNames, fromNames, headId, tailId, nums)
    /\ toIndex = [t \in Names |-> IF t \in toNames THEN DestIndex(headId[t]) ELSE <<>>]
    /\ \E old \in oldDirs :
          dirs = [p \in DirPaths |->
                    CASE p = "toPath" -> "to"
                      [] p = "fromPath" -> "from"
                      [] OTHER -> old]
    /\ pc = "range"
    /\ pending = toNames
    /\ name = NoTable
    /\ result = [kind |-> "none", table |-> NoTable, cause |-> "nil"]
    /\ cpc = "idle"
    /\ toFileId = 0
    /\ fromFileId = 0
    /\ cur = 0
    /\ entry = NoEntry
    /\ buf = <<>>
    /\ cerr = "nil"
    /\ idxOpen = FALSE
    /\ renames = <<>>
    /\ dirLog = <<>>
    /\ written = <<>>
    /\ merged = {}
    /\ files0 = files
    /\ toIndex0 = toIndex
    /\ CopyIdle
    /\ FileIdle

\* one table pair, every source index up to MaxRecords records
Init ==
    InitWith({{"headers"}}, {{}, {"headers"}}, 1..MaxHead, 1..MaxFileNum,
             SeqsUpTo(1..MaxFileNum, MaxRecords), {"none"})

\* every pair of stores over Names, short source indexes
InitStore ==
    InitWith(SUBSET Names, SUBSET Names, {1}, {1},
             SeqsUpTo(1..2, StoreMaxRecords), {"none", "stale"})

(* ----------------------------------------------------------------- concat *)

\* mutant: numbering starts on the destination head itself
firstToFileId_atHead(h) == h

\* line 166
firstToFileId(h) == h + 1

\* mutant: only a step backwards is taken for a jump
isJump_backwardsOnly(from, filenum) == filenum < from

\* line 186: the condition under which the jump error is returned
isJump(from, filenum) == from # filenum + 1

\* mutant: the record keeps the source's segment number
translate_untranslated(e, id) == e

\* line 191
translate(e, id) == [e EXCEPT !.filenum = id]

concatResetLocals ==
    /\ toFileId' = 0
    /\ fromFileId' = 0
    /\ cur' = 0
    /\ entry' = NoEntry
    /\ buf' = <<>>
    /\ idxOpen' = FALSE

\* return err / return nil of concat
concatReturns(err) ==
    /\ cpc' = "ret"
    /\ cerr' = err

\* lines 161-169
concatOpen ==
    /\ cpc = "open"
    /\ \E fail \in BOOLEAN :
          IF fail
          THEN /\ concatReturns("open")
               /\ UNCHANGED <<toFileId, fromFileId, idxOpen>>
          ELSE /\ cpc' = "read"
               /\ idxOpen' = TRUE
               /\ toFileId' = firstToFileId(headId[name])
               /\ fromFileId' = tailId[name]
               /\ UNCHANGED cerr
    /\ cur' = 0
    /\ buf' = <<>>
    /\ UNCHANGED <<entry, diskVars, tableVars, utilVars, storeVars, histVars>>

\* readIndex, lines 150-158: "eof", "err" or the record at position i
readIndex(t, i) ==
    IF i >= Len(fromIndex[t]) THEN {"eof"} ELSE {"ok", "err"}

\* lines 171-179
concatRead ==
    /\ cpc = "read"
    /\ \E r \in readIndex(name, cur) :
          CASE r = "eof" -> /\ cpc' = "flush"
                            /\ UNCHANGED <<entry, cerr>>
            [] r = "err" -> /\ concatReturns("read")
                            /\ UNCHANGED entry
            [] OTHER     -> /\ entry' = fromIndex[name][cur + 1]
                            /\ cpc' = IF entry'.filenum # fromFileId THEN "rename" ELSE "write"
                            /\ UNCHANGED cerr
    /\ UNCHANGED <<toFileId, fromFileId, cur, buf, idxOpen, diskVars, tableVars, utilVars,
                   storeVars, histVars>>

\* the rename of lines 183 and 205: fails on an I/O error or a missing source
concatRenameStep(site, id, okpc) ==
    LET src == fileName("from", name, fromFileId)
        dst == fileName("to", name, id)
    IN \E fail \in BOOLEAN :
          IF fail \/ src \notin DOMAIN files
          THEN /\ concatReturns("rename")
               /\ UNCHANGED <<files, renames>>
          ELSE /\ files' = osRename(files, src, dst)
               /\ renames' = Append(renames,
                                [site |-> site, src |-> src, dst |-> dst,
                                 overwrote |-> dst \in DOMAIN files])
               /\ IF okpc = "ret" THEN concatReturns("nil")
                                  ELSE cpc' = okpc /\ UNCHANGED cerr

\* lines 180-185
concatRename ==
    /\ cpc = "rename"
    /\ toFileId' = toFileId + 1
    /\ concatRenameStep("loop", toFileId', "check")
    /\ UNCHANGED <<fromFileId, cur, entry, buf, idxOpen, toIndex, fromIndex, dirs,
                   tableVars, utilVars, storeVars, written, merged, dirLog, files0, toIndex0>>

\* lines 186-190
concatCheck ==
    /\ cpc = "check"
    /\ IF isJump(fromFileId, entry.filenum)
       THEN /\ concatReturns("jump")
            /\ UNCHANGED fromFileId
       ELSE /\ fromFileId' = entry.filenum
            /\ cpc' = "write"
            /\ UNCHANGED cerr
    /\ UNCHANGED <<toFileId, cur, entry, buf, idxOpen, diskVars, tableVars, utilVars, storeVars,
                   histVars>>

\* a failing write of the buffer: the file takes some of the buffered
\* records but not all, the rest stays buffered
shortWrite ==
    \E k \in 0..(Len(buf) - 1) :
       /\ toIndex' = [toIndex EXCEPT ![name] = @ \o SubSeq(buf, 1, k)]
       /\ buf' = SubSeq(buf, k + 1, Len(buf))

\* lines 191-196: bufio.Writer.Write writes the buffer through when the new
\* record does not fit, which is the only way Write can fail
concatWrite ==
    /\ cpc = "write"
    /\ LET e == translate(entry, toFileId) IN
          /\ entry' = e
          /\ IF Len(buf) < BufRecords
             THEN /\ buf' = Append(buf, e)
                  /\ written' = Append(written, e)
                  /\ cur' = cur + 1
                  /\ cpc' = "read"
                  /\ UNCHANGED <<toIndex, cerr>>
             ELSE \E fail \in BOOLEAN :
                     IF fail
                     THEN /\ concatReturns("write")
                          /\ shortWrite
                          /\ UNCHANGED <<written, cur>>
                     ELSE /\ toIndex' = [toIndex EXCEPT ![name] = @ \o buf]
                          /\ buf' = <<e>>
                          /\ written' = Append(written, e)
                          /\ cur' = cur + 1
                          /\ cpc' = "read"
                          /\ UNCHANGED cerr
    /\ UNCHANGED <<toFileId, fromFileId, idxOpen, fromIndex, files, dirs, tableVars, utilVars,
                   storeVars, renames, merged, dirLog, files0, toIndex0>>

\* mutant: the error of Flush is dropped and concat goes on to Close
concatFlush_unchecked ==
    /\ cpc = "flush"
    /\ \E fail \in {FALSE, buf # <<>>} :
          IF fail
          THEN shortWrite
          ELSE /\ toIndex' = [toIndex EXCEPT ![name] = @ \o buf]
               /\ buf' = <<>>
    /\ cpc' = "close"
    /\ UNCHANGED <<cerr, toFileId, fromFileId, cur, entry, idxOpen, fromIndex, files, dirs,
                   tableVars, utilVars, storeVars, histVars>>

\* lines 197-199: Flush of an empty buffer writes nothing and cannot fail
concatFlush ==
    /\ cpc = "flush"
    /\ \E fail \in {FALSE, buf # <<>>} :
          IF fail
          THEN /\ concatReturns("flush")
               /\ shortWrite
          ELSE /\ toIndex' = [toIndex EXCEPT ![name] = @ \o buf]
               /\ buf' = <<>>
               /\ cpc' = "close"
               /\ UNCHANGED cerr
    /\ UNCHANGED <<toFileId, fromFileId, cur, entry, idxOpen, fromIndex, files, dirs,
                   tableVars, utilVars, storeVars, histVars>>

\* lines 200-202
concatClose ==
    /\ cpc = "close"
    /\ \E fail \in BOOLEAN :
          IF fail
          THEN concatReturns("close")
          ELSE cpc' = "final" /\ UNCHANGED cerr
    /\ idxOpen' = FALSE
    /\ UNCHANGED <<toFileId, fromFileId, cur, entry, buf, diskVars, tableVars, utilVars,
                   storeVars, histVars>>

\* mutant: the final rename advances toFileId as the rename of the loop does
concatFinal_advancing ==
    /\ cpc = "final"
    /\ concatRenameStep("final", toFileId + 1, "ret")
    /\ UNCHANGED <<toFileId, fromFileId, cur, entry, buf, idxOpen, toIndex, fromIndex, dirs,
                   tableVars, utilVars, storeVars, written, merged, dirLog, files0, toIndex0>>

\* lines 204-208
concatFinal ==
    /\ cpc = "final"
    /\ concatRenameStep("final", toFileId, "ret")
    /\ UNCHANGED <<toFileId, fromFileId, cur, entry, buf, idxOpen, toIndex, fromIndex, dirs,
                   tableVars, utilVars, storeVars, written, merged, dirLog, files0, toIndex0>>

concat ==
    \/ concatOpen
    \/ concatRead
    \/ concatRename
    \/ concatCheck
    \/ concatWrite
    \/ concatFlush
    \/ concatClose
    \/ concatFinal

(* ----------------------------------------------------------------- Concat *)

ConcatReturns(kind, t, cause) ==
    /\ pc' = "returned"
    /\ result' = [kind |-> kind, table |-> t, cause |-> cause]

\* mutant: the lookup result is not tested
hasTable_unchecked(t) == TRUE

\* line 129: from.tables[name]
hasTable(t) == t \in fromNames

\* lines 127-132: the range loop reaches a table the source does not have
ConcatMissing ==
    /\ pc = "range"
    /\ \E t \in pending :
          /\ ~hasTable(t)
          /\ name' = t
          /\ pending' = pending \ {t}
          /\ ConcatReturns("missing", t, "nil")
    /\ UNCHANGED <<diskVars, tableVars, utilVars, localVars, histVars>>

\* lines 127-133: the range loop reaches a table of both stores
ConcatCall ==
    /\ pc = "range"
    /\ \E t \in pending :
          /\ hasTable(t)
          /\ name' = t
          /\ pending' = pending \ {t}
    /\ pc' = "concat"
    /\ cpc' = "open"
    /\ cerr' = "nil"
    /\ written' = <<>>
    /\ UNCHANGED <<result, toFileId, fromFileId, cur, entry, buf, idxOpen, diskVars,
                   tableVars, utilVars, renames, merged, dirLog, files0, toIndex0>>

\* mutant: the error of concat is dropped
stopsOn_never(err) == FALSE

\* line 134: whether Concat gives up after concat returned err
stopsOn(err) == err # "nil"

\* lines 133-137
ConcatReturn ==
    /\ pc = "concat"
    /\ cpc = "ret"
    /\ IF stopsOn(cerr)
       THEN /\ ConcatReturns("concat", name, cerr)
            /\ UNCHANGED merged
       ELSE /\ pc' = "range"
            /\ merged' = IF cerr = "nil" THEN merged \cup {name} ELSE merged
            /\ UNCHANGED result
    /\ cpc' = "idle"
    /\ concatResetLocals
    /\ UNCHANGED <<cerr, name, pending, diskVars, tableVars, utilVars, renames, written, dirLog,
                   files0, toIndex0>>

\* lines 139-140: both lookups dereference the table named "headers"
ConcatPaths ==
    /\ pc = "range"
    /\ pending = {}
    /\ IF "headers" \in toNames /\ "headers" \in fromNames
       THEN pc' = "promote" /\ UNCHANGED result
       ELSE ConcatReturns("panic", "headers", "nil")
    /\ UNCHANGED <<name, pending, diskVars, tableVars, utilVars, localVars, histVars>>

\* line 143: the error of os.Rename is dropped
ConcatRenameOld ==
    /\ pc = "promote"
    /\ \E fail \in BOOLEAN :
          IF fail \/ ~dirRenameOk(dirs, "fromPath", "fromPath.old")
          THEN UNCHANGED dirs
          ELSE dirs' = dirRename(dirs, "fromPath", "fromPath.old")
    /\ dirLog' = Append(dirLog, <<"fromPath", "fromPath.old">>)
    /\ pc' = "promote2"
    /\ UNCHANGED <<toIndex, fromIndex, files, name, pending, result, tableVars, utilVars,
                   localVars, renames, written, merged, files0, toIndex0>>

\* lines 145-147: the error of os.Rename is dropped
ConcatRenameNew ==
    /\ pc = "promote2"
    /\ \E fail \in BOOLEAN :
          IF fail \/ ~dirRenameOk(dirs, "toPath", "fromPath")
          THEN UNCHANGED dirs
          ELSE dirs' = dirRename(dirs, "toPath", "fromPath")
    /\ dirLog' = Append(dirLog, <<"toPath", "fromPath">>)
    /\ ConcatReturns("ok", NoTable, "nil")
    /\ UNCHANGED <<toIndex, fromIndex, files, name, pending, tableVars, utilVars,
                   localVars, renames, written, merged, files0, toIndex0>>

Concat ==
    \/ ConcatMissing
    \/ ConcatCall
    \/ ConcatReturn
    \/ ConcatPaths
    \/ ConcatRenameOld
    \/ ConcatRenameNew

Next == Concat \/ concat

Spec == Init /\ [][Next]_vars

SpecStore == InitStore /\ [][Next]_vars

TypeOK ==
    /\ toNames \subseteq Names
    /\ fromNames \subseteq Names
    /\ pc \in {"range", "concat", "promote", "promote2", "returned"}
    /\ cpc \in {"idle", "open", "read", "rename", "check", "write", "flush", "close",
                "final", "ret"}
    /\ result.kind \in {"none", "ok", "missing", "concat", "panic"}
    /\ cerr \in {"nil", "open", "read", "rename", "jump", "write", "flush", "close"}
    /\ Len(buf) <= BufRecords
    /\ pending \subseteq toNames

(* ------------------------------------------------- reading a table back *)

IsPrefix(s, t) == Len(s) <= Len(t) /\ SubSeq(t, 1, Len(s)) = s

\* the items an index holds: one record per item plus the boundary record
ItemCount(idx) == Len(idx) - 1

NoFile == fileName("-", "-", 0)

\* item i (from 0) of a table: records i and i+1 bound it inside the
\* segment record i+1 names; an item that opens a segment starts at 0
Item(idx, fs, store, t, i) ==
    LET lo == idx[i + 1]
        hi == idx[i + 2]
        p  == fileName(store, t, hi.filenum)
    IN [content |-> IF p \in DOMAIN fs THEN fs[p] ELSE NoFile,
        start   |-> IF lo.filenum = hi.filenum THEN lo.offset ELSE 0,
        end     |-> hi.offset]

\* the source index of t is what a freezer table writes: it starts in the
\* tail segment and every record stays in the segment or moves to the next
DenseAscending(t) ==
    /\ Len(fromIndex[t]) >= 1
    /\ fromIndex[t][1].filenum = tailId[t]
    /\ \A i \in 1..(Len(fromIndex[t]) - 1) :
          fromIndex[t][i + 1].filenum - fromIndex[t][i].filenum \in {0, 1}

\* the number of segments a dense ascending source index names
SegmentCount(t) == fromIndex[t][Len(fromIndex[t])].filenum - tailId[t] + 1

\* destination segment numbers of t that were not on disk before Concat
NewSegments(t) ==
    {p.num : p \in {q \in DOMAIN files \ DOMAIN files0 : q.store = "to" /\ q.table = t}}

RenamesOf(t) == SelectSeq(renames, LAMBDA r : r.src.table = t)

\* concat of the table `name` has just returned
Returned == pc = "concat" /\ cpc = "ret"

NoIOError == cerr \in {"nil", "jump"}

(* ---------------------------------------------------------------- claims *)

\* C1: for a source whose index names k >= 1 contiguous ascending segments
\* tailId .. tailId+k-1, concat (no I/O error) succeeds and the destination
\* segments newly present are exactly headId+1 .. headId+k.
C1_NewSegmentsContiguous ==
    (Returned /\ NoIOError /\ DenseAscending(name)) =>
        /\ cerr = "nil"
        /\ NewSegments(name) = (headId[name] + 1)..(headId[name] + SegmentCount(name))

\* C2: after a successful concat of a destination with n items and a source
\* with m items, item n+j of the merged table reads as source item j did,
\* for every j < m: same segment content, same offsets.
C2_SourceItemsReadBack ==
    (Returned /\ cerr = "nil" /\ DenseAscending(name)) =>
        LET n == ItemCount(toIndex0[name])
            m == ItemCount(fromIndex[name])
        IN \A j \in 0..(m - 1) :
              /\ n + j < ItemCount(toIndex[name])
              /\ Item(toIndex[name], files, "to", name, n + j)
                   = Item(fromIndex[name], files0, "from", name, j)

\* C3: in every state during and after concat, successful or not, the
\* records the destination index held before are still its prefix and every
\* destination segment 0 .. headId keeps its name and its content.
C3_DestinationPreserved ==
    \A t \in toNames :
       /\ IsPrefix(toIndex0[t], toIndex[t])
       /\ \A n \in 0..headId[t] :
             /\ fileName("to", t, n) \in DOMAIN files
             /\ files[fileName("to", t, n)] = files0[fileName("to", t, n)]

C3_Witness ==
    /\ Returned
    /\ RenamesOf(name) # <<>>
    /\ Len(toIndex[name]) > Len(toIndex0[name])

\* C4: after a successful concat of a destination holding n items and a
\* source holding m items the merged index holds n+m items.
C4_ItemCountAdds ==
    (Returned /\ cerr = "nil" /\ Len(fromIndex[name]) >= 1) =>
        ItemCount(toIndex[name]) = ItemCount(toIndex0[name]) + ItemCount(fromIndex[name])

\* C5: a record whose segment number is fromFileId + 1 never raises the
\* jump error.
C5_StepByOneAccepted ==
    (cpc = "ret" /\ cerr = "jump") => entry.filenum # fromFileId + 1

\* C6: a record whose segment number exceeds fromFileId by more than 1 makes
\* concat return the jump error at that record, with nothing read, written
\* or renamed after the check, and Concat then returns without another step
\* on disk.
C6_GapAborts ==
    /\ [][(cpc = "check" /\ entry.filenum > fromFileId + 1) =>
             /\ cpc' = "ret"
             /\ cerr' = "jump"
             /\ UNCHANGED <<cur, fromFileId, buf, diskVars, renames, written>>]_vars
    /\ [][(cpc = "ret" /\ cerr = "jump") =>
             /\ pc' = "returned"
             /\ UNCHANGED <<diskVars, renames, written>>]_vars
    /\ []((cpc = "ret" /\ cerr = "jump") =>
             /\ entry = fromIndex[name][cur + 1]
             /\ Len(written) = cur
             /\ \A i \in 1..Len(renames) :
                   renames[i].src.table = name => renames[i].site = "loop")

C6_Witness ==
    /\ cpc = "ret"
    /\ cerr = "jump"
    /\ entry.filenum > fromFileId + 1
    /\ written # <<>>

\* C7: when concat returns the jump error the destination index on disk is
\* its original records followed by exactly the records handed to the
\* index writer before the jump.
C7_GapLeavesWrittenPrefix ==
    (cpc = "ret" /\ cerr = "jump") => toIndex[name] = toIndex0[name] \o written

\* the one rename of a concat whose source index is empty
TailToNextHead(t) ==
    [site |-> "final", src |-> fileName("from", t, tailId[t]),
     dst |-> fileName("to", t, headId[t] + 1), overwrote |-> FALSE]

\* C8: with a source index of zero records concat appends nothing to the
\* destination index and its only rename moves the source tail segment to
\* destination segment headId + 1.
C8_EmptySource ==
    \A t \in toNames \cap fromNames :
       fromIndex[t] = <<>> =>
          /\ toIndex[t] = toIndex0[t]
          /\ IsPrefix(RenamesOf(t), <<TailToNextHead(t)>>)
          /\ (t \in merged \/ (t = name /\ cpc = "ret" /\ cerr = "nil"))
                => RenamesOf(t) = <<TailToNextHead(t)>>

C8_Witness ==
    /\ Returned
    /\ cerr = "nil"
    /\ fromIndex[name] = <<>>
    /\ RenamesOf(name) = <<TailToNextHead(name)>>

\* what a finished concat of t leaves on disk
StaysMerged(t) ==
    /\ Len(toIndex[t]) = Len(toIndex0[t]) + Len(fromIndex[t])
    /\ \A i \in 1..Len(renames) :
          renames[i].src.table = t =>
             /\ renames[i].src \notin DOMAIN files
             /\ renames[i].dst \in DOMAIN files

\* C9: reaching a destination table the source store lacks makes Concat
\* return an error naming that table; nothing is concatenated afterwards,
\* the tables concatenated before stay so, and no directory is renamed.
C9_MissingTable ==
    /\ [][(pc = "range" /\ pending' # pending /\ name' \notin fromNames) =>
             /\ pc' = "returned"
             /\ result' = [kind |-> "missing", table |-> name', cause |-> "nil"]
             /\ UNCHANGED <<diskVars, renames, merged>>]_vars
    /\ [][result.kind # "missing"]_vars
    /\ [](result.kind = "missing" =>
             /\ result.table \in toNames \ fromNames
             /\ cpc = "idle"
             /\ dirs["toPath"] = "to" /\ dirs["fromPath"] = "from"
             /\ \A t \in merged : StaysMerged(t))

C9_Witness ==
    /\ result.kind = "missing"
    /\ merged # {}
    /\ renames # <<>>

\* C10: Concat stops at the first table whose concat fails: it returns an
\* error naming that table and carrying concat's error, and no concat is
\* started afterwards.
C10_FirstFailureStops ==
    /\ [][(pc = "concat" /\ cpc = "ret" /\ cerr # "nil") =>
             /\ pc' = "returned"
             /\ result' = [kind |-> "concat", table |-> name, cause |-> cerr]
             /\ UNCHANGED <<diskVars, renames, merged>>]_vars
    /\ [][result.kind # "concat"]_vars
    /\ [](result.kind = "concat" =>
             /\ pc = "returned"
             /\ cpc = "idle"
             /\ result.table = name
             /\ result.table \notin merged
             /\ result.cause # "nil")

C10_Witness ==
    /\ result.kind = "concat"
    /\ result.cause = "jump"
    /\ pending # {}

\* the two directory renames of a promotion, in the order of lines 143, 145
Promotion == << <<"fromPath", "fromPath.old">>, <<"toPath", "fromPath">> >>

\* C11: no directory rename is issued before every destination table has
\* been concatenated successfully, none at all when a table is missing or
\* fails, and when all succeed exactly two are issued: the source root to
\* its path plus ".old", then the destination root to the source's path.
C11_PromotionLastAndOrdered ==
    /\ IsPrefix(dirLog, Promotion)
    /\ dirLog # <<>> => (pending = {} /\ merged = toNames)
    /\ result.kind \in {"missing", "concat"} => dirLog = <<>>
    /\ (pc = "returned" /\ toNames # {} /\ merged = toNames) => dirLog = Promotion

\* C12: a failing directory rename makes Concat return an error, so when
\* Concat returns success the destination directory sits at the source's
\* path and the source directory at that path plus ".old".
C12_PromotionChecked ==
    result.kind = "ok" => (dirs["fromPath"] = "to" /\ dirs["fromPath.old"] = "from")

\* the records concat has put on disk behind the original destination index
Appended(t) == SubSeq(toIndex[t], Len(toIndex0[t]) + 1, Len(toIndex[t]))

\* toFileId when source record k of t is processed: headId + 1, advanced
\* once for every record up to k that leaves the segment of its predecessor
ToFileIdAt(t, k) ==
    headId[t] + 1
      + Cardinality({i \in 1..k :
            fromIndex[t][i].filenum
              # (IF i = 1 THEN tailId[t] ELSE fromIndex[t][i - 1].filenum)})

\* C16: a successful concat appends one record per source record, in source
\* order, each with the offset of its source record and with the value
\* toFileId had when the record was processed as segment number; the source
\* index is never modified.
C16_RecordTranslation ==
    /\ [][fromIndex' = fromIndex]_vars
    /\ [][(cpc = "write" /\ cur' = cur + 1) =>
             /\ toFileId = ToFileIdAt(name, cur + 1)
             /\ buf'[Len(buf')] = indexEntry(toFileId, fromIndex[name][cur + 1].offset)]_vars
    /\ []((Returned /\ cerr = "nil") =>
             /\ Len(Appended(name)) = Len(fromIndex[name])
             /\ \A k \in 1..Len(fromIndex[name]) :
                   Appended(name)[k]
                     = indexEntry(ToFileIdAt(name, k), fromIndex[name][k].offset))

C16_Witness ==
    /\ Returned
    /\ cerr = "nil"
    /\ Len(fromIndex[name]) > BufRecords
    /\ \E k \in 1..Len(fromIndex[name]) : ToFileIdAt(name, k) > headId[name] + 1

\* the final rename of concat has been performed for the table `name`
FinalRenamed ==
    \E i \in 1..Len(renames) : renames[i].src.table = name /\ renames[i].site = "final"

\* C17: the final rename of the last source segment happens only after the
\* loop reached the end of the source index, the index writer was flushed
\* and the index file closed; when the flush or the close fails concat
\* returns that error and the last source segment keeps its source name.
C17_FinalRenameAfterFlushAndClose ==
    /\ [][(renames' # renames /\ renames'[Len(renames')].site = "final") =>
             /\ cerr = "nil"
             /\ cur = Len(fromIndex[name])
             /\ buf = <<>>
             /\ toIndex[name] = toIndex0[name] \o written
             /\ ~idxOpen
             /\ renames'[Len(renames')].src = fileName("from", name, fromFileId)
             /\ renames'[Len(renames')].dst = fileName("to", name, toFileId)]_vars
    /\ [][(cpc = "flush" /\ cpc' = "ret") => cerr' = "flush"]_vars
    /\ [][(cpc = "close" /\ cpc' = "ret") => cerr' = "close"]_vars
    /\ []((cpc = "ret" /\ cerr \in {"flush", "close"}) =>
             /\ ~FinalRenamed
             /\ fileName("from", name, fromFileId) \in DOMAIN files
             /\ files[fileName("from", name, fromFileId)]
                  = files0[fileName("from", name, fromFileId)])

C17_Witness ==
    /\ cpc = "ret"
    /\ cerr \in {"flush", "close"}
    /\ written # <<>>
    /\ ~FinalRenamed

\* destination segment numbers the index of t on disk refers to
Referenced(t) == {toIndex[t][i].filenum : i \in 1..Len(toIndex[t])}

\* destination segment numbers of t that have a file
OnDisk(t) == {p.num : p \in {q \in DOMAIN files : q.store = "to" /\ q.table = t}}

\* the index of t names a segment without a file, or a segment file exists
\* that no record names
Disagree(t) == Referenced(t) # OnDisk(t)

\* C18: concat is not atomic.  Index and segment files of the destination
\* agree before concat; right after every rename of the loop the renamed
\* file exists and no record on disk names it, and once the index of a
\* dense ascending source is flushed, until the final rename, the index on
\* disk names destination segment headId+1, which has no file yet.
C18_NotAtomic ==
    /\ (pc = "range" /\ renames = <<>>) => \A t \in toNames : ~Disagree(t)
    /\ cpc = "check" =>
          /\ toFileId \in OnDisk(name) \ Referenced(name)
          /\ Disagree(name)
    /\ (cpc \in {"close", "final"} /\ DenseAscending(name)) =>
          /\ headId[name] + 1 \in Referenced(name) \ OnDisk(name)
          /\ Disagree(name)

C18_Witness ==
    /\ cpc = "final"
    /\ DenseAscending(name)
    /\ Disagree(name)
    /\ Len(toIndex[name]) > Len(toIndex0[name])

\* C19: no rename of concat, in the loop or the final one, targets a
\* destination file name that exists at that moment, whatever segment
\* numbers the source index holds.
C19_NoRenameOverwrites ==
    \A i \in 1..Len(renames) : ~renames[i].overwrote

\* C20: when every destination table is present in the source and every
\* concat succeeded, Concat returns normally, whatever the tables are named.
C20_AnyTableNames ==
    (pc = "returned" /\ toNames # {} /\ toNames \subseteq fromNames /\ merged = toNames) =>
        result.kind = "ok"

(* --------------------------------------------------------------- copyFrom *)

\* Concat is not running and there are no stores
ConcatIdle ==
    /\ toNames = {}
    /\ fromNames = {}
    /\ headId = [t \in Names |-> 0]
    /\ tailId = [t \in Names |-> 0]
    /\ toIndex = [t \in Names |-> <<>>]
    /\ fromIndex = [t \in Names |-> <<>>]
    /\ files = <<>>
    /\ dirs = [p \in DirPaths |-> "none"]
    /\ pc = "returned"
    /\ pending = {}
    /\ name = NoTable
    /\ result = [kind |-> "none", table |-> NoTable, cause |-> "nil"]
    /\ cpc = "idle"
    /\ toFileId = 0
    /\ fromFileId = 0
    /\ cur = 0
    /\ entry = NoEntry
    /\ buf = <<>>
    /\ cerr = "nil"
    /\ idxOpen = FALSE
    /\ renames = <<>>
    /\ written = <<>>
    /\ merged = {}
    /\ dirLog = <<>>
    /\ files0 = <<>>
    /\ toIndex0 = [t \in Names |-> <<>>]

ByteVals == {1, 2}

\* the name ioutil.TempFile picks: one no file of the directory has
TempName == "tmp"

\* the files of the directory: each of "a" and "b" holds bytes or is missing
Directories ==
    UNION {[S -> SeqsUpTo(ByteVals, MaxBytes)] : S \in SUBSET {"a", "b"}}

\* copyFrom("a", destPath, offset, before) on every small directory
InitCopy ==
    /\ ConcatIdle
    /\ FileIdle
    /\ srcPath = "a"
    /\ destPath \in {"a", "b"}
    /\ cfiles \in Directories
    /\ destPath = "a" => "b" \notin DOMAIN cfiles
    /\ cfiles0 = cfiles
    /\ offset \in 0..(MaxBytes + 1)
    /\ before \in {NoCallback}
                  \cup {[given |-> TRUE, prefix |-> x] : x \in SeqsUpTo(ByteVals, MaxPrefix)}
    /\ copyPc = "temp"
    /\ fOpen = FALSE
    /\ srcOpen = FALSE
    /\ copyErr = "nil"
    /\ copyFault = "none"

\* a call of copyFrom fails: the error is what copyFrom returns after the
\* deferred function ran
copyFails(call) ==
    /\ copyErr' = call
    /\ copyFault' = call
    /\ copyPc' = "defer"

\* lines 37-41
copyTempFile ==
    /\ copyPc = "temp"
    /\ \E fail \in BOOLEAN :
          IF fail
          THEN /\ copyErr' = "tempfile"
               /\ copyFault' = "tempfile"
               /\ copyPc' = "done"
               /\ UNCHANGED <<cfiles, fOpen>>
          ELSE /\ cfiles' = (TempName :> <<>>) @@ cfiles
               /\ fOpen' = TRUE
               /\ copyPc' = "before"
               /\ UNCHANGED <<copyErr, copyFault>>
    /\ UNCHANGED <<srcPath, destPath, offset, before, srcOpen, cfiles0, concatVars, fileVars>>

\* lines 52-56: the callback writes its bytes to f; when it fails it has
\* written some of them
copyBefore ==
    /\ copyPc = "before"
    /\ IF ~before.given
       THEN /\ copyPc' = "open"
            /\ UNCHANGED <<cfiles, copyErr, copyFault>>
       ELSE \E fail \in BOOLEAN :
               IF fail
               THEN /\ \E k \in 0..Len(before.prefix) :
                          cfiles' = [cfiles EXCEPT ![TempName] = SubSeq(before.prefix, 1, k)]
                    /\ copyFails("before")
               ELSE /\ cfiles' = [cfiles EXCEPT ![TempName] = before.prefix]
                    /\ copyPc' = "open"
                    /\ UNCHANGED <<copyErr, copyFault>>
    /\ UNCHANGED <<srcPath, destPath, offset, before, fOpen, srcOpen, cfiles0,
                   concatVars, fileVars>>

\* lines 58-61
copyOpen ==
    /\ copyPc = "open"
    /\ \E fail \in BOOLEAN :
          IF fail \/ srcPath \notin DOMAIN cfiles
          THEN /\ copyFails("open")
               /\ UNCHANGED srcOpen
          ELSE /\ srcOpen' = TRUE
               /\ copyPc' = "seek"
               /\ UNCHANGED <<copyErr, copyFault>>
    /\ UNCHANGED <<cfiles, srcPath, destPath, offset, before, fOpen, cfiles0,
                   concatVars, fileVars>>

\* lines 62-65
copySeek ==
    /\ copyPc = "seek"
    /\ \E fail \in BOOLEAN :
          IF fail
          THEN /\ copyFails("seek")
               /\ srcOpen' = FALSE
          ELSE /\ copyPc' = "copy"
               /\ UNCHANGED <<srcOpen, copyErr, copyFault>>
    /\ UNCHANGED <<cfiles, srcPath, destPath, offset, before, fOpen, cfiles0,
                   concatVars, fileVars>>

\* mutant: the source is copied from its start
sourceFrom_start(content, off) == content

\* lines 62, 67: what io.Copy reads from src after Seek(offset, 0); a seek
\* past the end is no error and leaves nothing to read
sourceFrom(content, off) ==
    IF off >= Len(content) THEN <<>> ELSE SubSeq(content, off + 1, Len(content))

\* lines 67-71: a failing io.Copy has appended some of the bytes
copyCopy ==
    /\ copyPc = "copy"
    /\ LET rest == sourceFrom(cfiles[srcPath], offset) IN
       \E fail \in BOOLEAN :
          IF fail
          THEN /\ \E k \in 0..Len(rest) :
                     cfiles' = [cfiles EXCEPT ![TempName] = @ \o SubSeq(rest, 1, k)]
               /\ copyFails("copy")
               /\ srcOpen' = FALSE
          ELSE /\ cfiles' = [cfiles EXCEPT ![TempName] = @ \o rest]
               /\ copyPc' = "close"
               /\ UNCHANGED <<srcOpen, copyErr, copyFault>>
    /\ UNCHANGED <<srcPath, destPath, offset, before, fOpen, cfiles0, concatVars, fileVars>>

\* lines 75-80
copyClose ==
    /\ copyPc = "close"
    /\ srcOpen' = FALSE
    /\ \E fail \in BOOLEAN :
          IF fail
          THEN /\ copyFails("close")
               /\ UNCHANGED fOpen
          ELSE /\ fOpen' = FALSE
               /\ copyPc' = "rename"
               /\ UNCHANGED <<copyErr, copyFault>>
    /\ UNCHANGED <<cfiles, srcPath, destPath, offset, before, cfiles0, concatVars, fileVars>>

\* lines 82-85
copyRename ==
    /\ copyPc = "rename"
    /\ \E fail \in BOOLEAN :
          IF fail
          THEN /\ copyFails("rename")
               /\ UNCHANGED cfiles
          ELSE /\ cfiles' = osRename(cfiles, TempName, destPath)
               /\ copyPc' = "defer"
               /\ UNCHANGED <<copyErr, copyFault>>
    /\ UNCHANGED <<srcPath, destPath, offset, before, fOpen, srcOpen, cfiles0,
                   concatVars, fileVars>>

\* mutant: the deferred function only closes f
osRemove_skipped(fs, path) == fs

\* line 48: os.Remove, whose error is dropped; a missing file is no change
osRemove(fs, path) == [p \in DOMAIN fs \ {path} |-> fs[p]]

\* lines 44-49: the deferred function, run on every return after line 41
copyDeferred ==
    /\ copyPc = "defer"
    /\ fOpen' = FALSE
    /\ cfiles' = osRemove(cfiles, TempName)
    /\ copyPc' = "done"
    /\ UNCHANGED <<srcPath, destPath, offset, before, srcOpen, copyErr, copyFault, cfiles0,
                   concatVars, fileVars>>

copyFrom ==
    \/ copyTempFile
    \/ copyBefore
    \/ copyOpen
    \/ copySeek
    \/ copyCopy
    \/ copyClose
    \/ copyRename
    \/ copyDeferred

SpecCopy == InitCopy /\ [][copyFrom]_vars

\* the bytes the before callback writes
Prefix == IF before.given THEN before.prefix ELSE <<>>

\* destPath is as it was before copyFrom
DestUntouched ==
    /\ destPath \in DOMAIN cfiles <=> destPath \in DOMAIN cfiles0
    /\ destPath \in DOMAIN cfiles => cfiles[destPath] = cfiles0[destPath]

\* C13: when copyFrom succeeds destPath holds the callback's prefix followed
\* by the source, as it was at the call, from offset on, whether destPath
\* was missing, held other bytes or is srcPath itself.
C13_CopyFromResult ==
    (copyPc = "done" /\ copyErr = "nil") =>
        /\ destPath \in DOMAIN cfiles
        /\ cfiles[destPath]
             = Prefix \o [i \in 1..(Len(cfiles0[srcPath]) - offset) |->
                             cfiles0[srcPath][offset + i]]
        /\ \A p \in DOMAIN cfiles0 \ {destPath} :
              p \in DOMAIN cfiles /\ cfiles[p] = cfiles0[p]

C13_Witness ==
    /\ copyPc = "done"
    /\ copyErr = "nil"
    /\ srcPath = destPath
    /\ Prefix # <<>>
    /\ offset > 0
    /\ offset < Len(cfiles0[srcPath])

\* C14: when a call of copyFrom fails, up to and including the final
\* rename, copyFrom returns that error, destPath is as it was and the
\* temporary file is gone; destPath is unchanged in every state before the
\* rename.
C14_CopyFromAllOrNothing ==
    /\ (copyPc = "done" /\ copyFault # "none") =>
          /\ copyErr = copyFault
          /\ DestUntouched
          /\ DOMAIN cfiles = DOMAIN cfiles0
    /\ copyErr # "nil" => copyFault = copyErr
    /\ (copyPc \in {"temp", "before", "open", "seek", "copy", "close", "rename"}
          \/ copyErr # "nil") => DestUntouched
    /\ copyPc = "done" => TempName \notin DOMAIN cfiles

C14_Witness ==
    /\ copyPc = "done"
    /\ copyFault \in {"copy", "close", "rename"}
    /\ destPath \in DOMAIN cfiles0
    /\ Prefix # <<>>

(* ---------------------------------------------------------- segment files *)

\* one segment file, missing or holding up to MaxFileLen bytes, not open
InitFile ==
    /\ ConcatIdle
    /\ CopyIdle
    /\ fexists \in BOOLEAN
    /\ fdata \in SeqsUpTo(ByteVals, MaxFileLen)
    /\ ~fexists => fdata = <<>>
    /\ fhandle = FALSE
    /\ cursor = 0
    /\ healthy = TRUE
    /\ lastOp = NoOp

fileOp(op, size, bytes, ok) == [op |-> op, size |-> size, bytes |-> bytes, ok |-> ok]

\* mutant: the handle is returned without the seek
seekEnd_skipped(data, pos) == pos

\* lines 98 and 120: file.Seek(0, io.SeekEnd), the new offset of a handle at pos
seekEnd(data, pos) == Len(data)

\* line 116: file.Truncate(size) cuts the file or extends it with zero bytes
truncated(data, size) ==
    [i \in 1..size |-> IF i <= Len(data) THEN data[i] ELSE 0]

\* file.Write of bytes through a handle at offset pos
writtenAt(data, pos, bytes) ==
    LET end == pos + Len(bytes)
        len == IF end > Len(data) THEN end ELSE Len(data)
    IN [i \in 1..len |->
          IF i > pos /\ i <= end THEN bytes[i - pos]
          ELSE IF i <= Len(data) THEN data[i] ELSE 0]

\* lines 89-102: when the seek fails the handle is not returned
openFreezerFileForAppend ==
    /\ ~fhandle
    /\ \E r \in {"open fails", "seek fails", "ok"} :
          CASE r = "open fails" ->
                  /\ lastOp' = fileOp("append", 0, <<>>, FALSE)
                  /\ UNCHANGED <<fexists, fdata, fhandle, cursor, healthy>>
            [] r = "seek fails" ->
                  /\ fexists' = TRUE
                  /\ lastOp' = fileOp("append", 0, <<>>, FALSE)
                  /\ UNCHANGED <<fdata, fhandle, cursor, healthy>>
            [] OTHER ->
                  /\ fexists' = TRUE
                  /\ fhandle' = TRUE
                  /\ cursor' = seekEnd(fdata, 0)
                  /\ healthy' = TRUE
                  /\ lastOp' = fileOp("append", 0, <<>>, TRUE)
                  /\ UNCHANGED fdata
    /\ UNCHANGED <<concatVars, copyVars>>

\* lines 110-112
openFreezerFileTruncated ==
    /\ ~fhandle
    /\ \E fail \in BOOLEAN :
          IF fail
          THEN /\ lastOp' = fileOp("truncated", 0, <<>>, FALSE)
               /\ UNCHANGED <<fexists, fdata, fhandle, cursor, healthy>>
          ELSE /\ fexists' = TRUE
               /\ fdata' = <<>>
               /\ fhandle' = TRUE
               /\ cursor' = 0
               /\ healthy' = TRUE
               /\ lastOp' = fileOp("truncated", 0, <<>>, TRUE)
    /\ UNCHANGED <<concatVars, copyVars>>

\* lines 115-124: when the seek fails the file is resized and the offset of
\* the handle is where it was
truncateFreezerFile ==
    /\ fhandle
    /\ \E size \in 0..MaxFileLen, r \in {"truncate fails", "seek fails", "ok"} :
          CASE r = "truncate fails" ->
                  /\ lastOp' = fileOp("truncate", size, <<>>, FALSE)
                  /\ UNCHANGED <<fdata, cursor, healthy>>
            [] r = "seek fails" ->
                  /\ fdata' = truncated(fdata, size)
                  /\ healthy' = FALSE
                  /\ lastOp' = fileOp("truncate", size, <<>>, FALSE)
                  /\ UNCHANGED cursor
            [] OTHER ->
                  /\ fdata' = truncated(fdata, size)
                  /\ cursor' = seekEnd(fdata', cursor)
                  /\ lastOp' = fileOp("truncate", size, <<>>, TRUE)
                  /\ UNCHANGED healthy
    /\ UNCHANGED <<fexists, fhandle, concatVars, copyVars>>

\* a write through the handle the helpers returned
fileWrite ==
    /\ fhandle
    /\ \E b \in ByteVals :
          /\ cursor + 1 <= MaxFileLen
          /\ fdata' = writtenAt(fdata, cursor, <<b>>)
          /\ cursor' = cursor + 1
          /\ lastOp' = fileOp("write", 0, <<b>>, TRUE)
    /\ UNCHANGED <<fexists, fhandle, healthy, concatVars, copyVars>>

\* the handle is closed
fileClose ==
    /\ fhandle
    /\ fhandle' = FALSE
    /\ cursor' = 0
    /\ healthy' = TRUE
    /\ lastOp' = fileOp("close", 0, <<>>, TRUE)
    /\ UNCHANGED <<fexists, fdata, concatVars, copyVars>>

NextFile ==
    \/ openFreezerFileForAppend
    \/ openFreezerFileTruncated
    \/ truncateFreezerFile
    \/ fileWrite
    \/ fileClose

SpecFile == InitFile /\ [][NextFile]_vars

\* C15: after openFreezerFileForAppend succeeds the content is unchanged
\* (empty if the file was missing) and the offset of the handle is the file
\* length; after truncateFreezerFile(file, size) succeeds the file is size
\* bytes long, cut or extended with zeros, and the offset is size; so on a
\* handle these helpers set up every write lands at the end of the file.
C15_CursorAtEnd ==
    /\ []((fhandle /\ healthy) => cursor = Len(fdata))
    /\ [][(lastOp'.op = "append" /\ lastOp'.ok) =>
             /\ fexists'
             /\ fhandle'
             /\ fdata' = fdata
             /\ cursor' = Len(fdata')]_vars
    /\ [][(lastOp'.op = "truncate" /\ lastOp'.ok) =>
             /\ Len(fdata') = lastOp'.size
             /\ cursor' = lastOp'.size
             /\ \A i \in 1..lastOp'.size :
                   fdata'[i] = IF i <= Len(fdata) THEN fdata[i] ELSE 0]_vars
    /\ [][(lastOp'.op = "write" /\ healthy) => fdata' = fdata \o lastOp'.bytes]_vars

C15_Witness ==
    /\ fhandle
    /\ healthy
    /\ lastOp.op = "write"
    /\ \E i \in 1..Len(fdata) : fdata[i] = 0
    /\ Len(fdata) = MaxFileLen
====
